---- MODULE Spec2Model ----
(***************************************************************************)
(* A model of shov-mcp's ShovMCPServer (src/unnamed/part_000): the         *)
(* manifest-driven tool dispatcher (start, the tools/list and tools/call   *)
(* handlers, callTool) and its SSE stream normalizer (handleSSEStream).    *)
(*                                                                         *)
(* Text is modelled by TLA+ strings, one character per JavaScript UTF-16   *)
(* code unit.  A byte stream is a string too, one character per byte: an   *)
(* ASCII byte is its own character, and the two bytes 0xC3 0xA9 (the UTF-8 *)
(* encoding of U+00E9) are written LeadByte and ContByte; the decoded      *)
(* character U+00E9 is written EAcute and U+FFFD is written Replacement.   *)
(*                                                                         *)
(* JavaScript runs each handler to its next `await` without interruption,  *)
(* so an action of the model is the code between two suspension points.    *)
(***************************************************************************)
EXTENDS Integers, Sequences, FiniteSets, TLC

(***************************************************************************)
(* Strings: the String.prototype methods the program uses                  *)
(***************************************************************************)
\* s.substring(a - 1, b): the characters at the 1-based positions a..b that exist
Sub(s, a, b) ==
  LET e == IF b > Len(s) THEN Len(s) ELSE b IN
  IF a > e THEN "" ELSE SubSeq(s, a, e)

\* s[i - 1] as a string; "" beyond the end
CharAt(s, i) == Sub(s, i, i)

\* s.slice(from)
Slice(s, from) == Sub(s, from + 1, Len(s))

StartsWith(s, p) == Sub(s, 1, Len(p)) = p

\* 1-based position of the first occurrence of p in s at or after `from`; 0 if none
IndexOf(s, p, from) ==
  LET hits == {i \in from..(Len(s) - Len(p) + 1) : Sub(s, i, i + Len(p) - 1) = p} IN
  IF hits = {} THEN 0 ELSE CHOOSE i \in hits : \A j \in hits : i <= j

Includes(s, p) == IndexOf(s, p, 1) # 0

\* s.replace(p, r) with a string pattern: the FIRST occurrence only.  The
\* replacement r is inserted literally: every r the program passes is an
\* encodeURIComponent result, which has no "$" (see EncodeChar).
Replace(s, p, r) ==
  LET at == IndexOf(s, p, 1) IN
  IF at = 0 THEN s
  ELSE Sub(s, 1, at - 1) \o r \o Sub(s, at + Len(p), Len(s))

\* s.split(sep): always at least one element
RECURSIVE Split(_, _)
Split(s, sep) ==
  LET at == IndexOf(s, sep, 1) IN
  IF at = 0 THEN <<s>>
  ELSE <<Sub(s, 1, at - 1)>> \o Split(Sub(s, at + Len(sep), Len(s)), sep)

RECURSIVE Concat(_)
Concat(ss) == IF ss = <<>> THEN "" ELSE Head(ss) \o Concat(Tail(ss))

Front(seq) == SubSeq(seq, 1, Len(seq) - 1)

Last(seq) == seq[Len(seq)]

(***************************************************************************)
(* JavaScript values: what JSON.parse returns and what the handlers build  *)
(***************************************************************************)
JUndefined == [kind |-> "undefined"]

JNull == [kind |-> "null"]

JBool(b) == [kind |-> "boolean", bool |-> b]

JNum(n) == [kind |-> "number", num |-> n]

JStr(s) == [kind |-> "string", str |-> s]

JArr(items) == [kind |-> "array", items |-> items]

\* members: the object's own properties in insertion order, <<name, value>>
JObj(members) == [kind |-> "object", members |-> members]

Digits == <<"0", "1", "2", "3", "4", "5", "6", "7", "8", "9">>

IsDigit(c) == \E d \in 1..10 : Digits[d] = c

DigitValue(c) == (CHOOSE d \in 1..10 : Digits[d] = c) - 1

RECURSIVE NatToString(_)
NatToString(n) ==
  IF n < 10 THEN Digits[n + 1] ELSE NatToString(n \div 10) \o Digits[(n % 10) + 1]

\* obj[name] for a value that is neither null nor undefined
RECURSIVE Lookup(_, _)
Lookup(members, name) ==
  IF members = <<>> THEN JUndefined
  ELSE IF Last(members)[1] = name THEN Last(members)[2]
  ELSE Lookup(Front(members), name)

GetProp(v, name) == IF v.kind = "object" THEN Lookup(v.members, name) ELSE JUndefined

\* a property read v.name throws TypeError exactly on null and undefined
PropReadThrows(v) == v.kind \in {"null", "undefined"}

Truthy(v) ==
  CASE v.kind = "undefined" -> FALSE
    [] v.kind = "null" -> FALSE
    [] v.kind = "boolean" -> v.bool
    [] v.kind = "number" -> v.num # 0
    [] v.kind = "string" -> v.str # ""
    [] OTHER -> TRUE

\* a || b
OrElse(a, b) == IF Truthy(a) THEN a ELSE b

\* String(v), as in `'' + v` and encodeURIComponent(v)
RECURSIVE ToStr(_)
ToStr(v) ==
  CASE v.kind = "undefined" -> "undefined"
    [] v.kind = "null" -> "null"
    [] v.kind = "boolean" -> IF v.bool THEN "true" ELSE "false"
    [] v.kind = "number" -> NatToString(v.num)
    [] v.kind = "string" -> v.str
    [] v.kind = "array" ->
         IF v.items = <<>> THEN ""
         ELSE LET h == Head(v.items)
                  hs == IF h.kind \in {"null", "undefined"} THEN "" ELSE ToStr(h)
              IN IF Len(v.items) = 1 THEN hs
                 ELSE hs \o "," \o ToStr(JArr(Tail(v.items)))
    [] OTHER -> "[object Object]"

(***************************************************************************)
(* JSON.parse, for JSON texts made of null, true, false, unsigned integers,*)
(* strings without escapes, arrays and objects, with blanks between tokens.*)
(* A parse result is [ok, val, next]: next is the position after the value.*)
(***************************************************************************)
ParseFail == [ok |-> FALSE, val |-> JUndefined, next |-> 0]

ParseOk(v, n) == [ok |-> TRUE, val |-> v, next |-> n]

RECURSIVE SkipWs(_, _)
SkipWs(s, i) == IF i <= Len(s) /\ CharAt(s, i) = " " THEN SkipWs(s, i + 1) ELSE i

Literal(s, i, word, v) ==
  IF Sub(s, i, i + Len(word) - 1) = word
  THEN ParseOk(v, i + Len(word)) ELSE ParseFail

RECURSIVE NumberEnd(_, _)
NumberEnd(s, i) == IF i <= Len(s) /\ IsDigit(CharAt(s, i)) THEN NumberEnd(s, i + 1) ELSE i

RECURSIVE NumberValue(_, _, _)
NumberValue(s, i, e) ==
  IF e < i THEN 0 ELSE NumberValue(s, i, e - 1) * 10 + DigitValue(CharAt(s, e))

ParseNumber(s, i) ==
  LET e == NumberEnd(s, i) IN
  IF CharAt(s, i) = "0" /\ e > i + 1 THEN ParseOk(JNum(0), i + 1)
  ELSE ParseOk(JNum(NumberValue(s, i, e - 1)), e)

\* s[i] is the opening quote
ParseString(s, i) ==
  LET close == IndexOf(s, "\"", i + 1) IN
  IF close = 0 \/ Includes(Sub(s, i + 1, close - 1), "\\") THEN ParseFail
  ELSE ParseOk(JStr(Sub(s, i + 1, close - 1)), close + 1)

RECURSIVE ParseValue(_, _)
RECURSIVE ParseMembers(_, _, _)
RECURSIVE ParseItems(_, _, _)
ParseValue(s, i0) ==
  LET i == SkipWs(s, i0)
      c == CharAt(s, i)
  IN IF i > Len(s) THEN ParseFail
     ELSE IF c = "n" THEN Literal(s, i, "null", JNull)
     ELSE IF c = "t" THEN Literal(s, i, "true", JBool(TRUE))
     ELSE IF c = "f" THEN Literal(s, i, "false", JBool(FALSE))
     ELSE IF IsDigit(c) THEN ParseNumber(s, i)
     ELSE IF c = "\"" THEN ParseString(s, i)
     ELSE IF c = "{" THEN
       LET j == SkipWs(s, i + 1) IN
       IF CharAt(s, j) = "}" THEN ParseOk(JObj(<<>>), j + 1)
       ELSE ParseMembers(s, j, <<>>)
     ELSE IF c = "[" THEN
       LET j == SkipWs(s, i + 1) IN
       IF CharAt(s, j) = "]" THEN ParseOk(JArr(<<>>), j + 1)
       ELSE ParseItems(s, j, <<>>)
     ELSE ParseFail

\* members of an object from position i (after "{" or ","), acc the ones before
ParseMembers(s, i0, acc) ==
  LET i == SkipWs(s, i0) IN
  IF CharAt(s, i) # "\"" THEN ParseFail
  ELSE
    LET k == ParseString(s, i) IN
    IF ~k.ok THEN ParseFail
    ELSE
      LET colon == SkipWs(s, k.next) IN
      IF CharAt(s, colon) # ":" THEN ParseFail
      ELSE
        LET v == ParseValue(s, colon + 1) IN
        IF ~v.ok THEN ParseFail
        ELSE
          LET after == SkipWs(s, v.next)
              all == Append(acc, <<k.val.str, v.val>>)
          IN IF CharAt(s, after) = "}" THEN ParseOk(JObj(all), after + 1)
             ELSE IF CharAt(s, after) = "," THEN ParseMembers(s, after + 1, all)
             ELSE ParseFail

ParseItems(s, i0, acc) ==
  LET v == ParseValue(s, i0) IN
  IF ~v.ok THEN ParseFail
  ELSE
    LET after == SkipWs(s, v.next)
        all == Append(acc, v.val)
    IN IF CharAt(s, after) = "]" THEN ParseOk(JArr(all), after + 1)
       ELSE IF CharAt(s, after) = "," THEN ParseItems(s, after + 1, all)
       ELSE ParseFail

\* JSON.parse(text): [ok |-> FALSE] stands for a thrown SyntaxError
JSONParse(text) ==
  LET r == ParseValue(text, 1) IN
  IF r.ok /\ SkipWs(text, r.next) = Len(text) + 1
  THEN [ok |-> TRUE, val |-> r.val]
  ELSE [ok |-> FALSE, val |-> JUndefined]

(***************************************************************************)
(* TextDecoder('utf-8').decode(value, {stream: true})                      *)
(***************************************************************************)
LeadByte == "^"

ContByte == "~"

EAcute == "@"

Replacement == "?"

\* the decoder on one byte with no sequence unfinished
DecodeFresh(b) ==
  IF b = LeadByte THEN [text |-> "", pending |-> b]
  ELSE IF b = ContByte THEN [text |-> Replacement, pending |-> ""]
  ELSE [text |-> b, pending |-> ""]

\* the decoder on one byte; pend is the lead byte of an unfinished sequence or ""
DecodeByte(b, pend) ==
  IF pend = "" THEN DecodeFresh(b)
  ELSE IF b = ContByte THEN [text |-> EAcute, pending |-> ""]
  ELSE [text |-> Replacement \o DecodeFresh(b).text, pending |-> DecodeFresh(b).pending]

\* bytes[lo..hi] are all ASCII
Ascii(bytes, lo, hi) ==
  \A k \in lo..hi : CharAt(bytes, k) # LeadByte /\ CharAt(bytes, k) # ContByte

\* the decoder's loop over bytes[lo..hi], left to right: a run of ASCII bytes
\* with no sequence unfinished decodes to itself; otherwise the range is
\* halved, and the state after the left half enters the right half
RECURSIVE DecodeRange(_, _, _, _)
DecodeRange(bytes, lo, hi, pend) ==
  IF lo > hi THEN [text |-> "", pending |-> pend]
  ELSE IF lo = hi THEN DecodeByte(CharAt(bytes, lo), pend)
  ELSE IF pend = "" /\ Ascii(bytes, lo, hi) THEN [text |-> Sub(bytes, lo, hi), pending |-> ""]
  ELSE
    LET mid == (lo + hi) \div 2
        l == DecodeRange(bytes, lo, mid, pend)
        r == DecodeRange(bytes, mid + 1, hi, l.pending)
    IN [text |-> l.text \o r.text, pending |-> r.pending]

\* decoder.decode(value): without {stream: true} an unfinished sequence at the
\* end of the chunk is flushed as U+FFFD and the decoder starts afresh
DecodeNoStream(pend, value) ==
  LET d == DecodeRange(value, 1, Len(value), "") IN
  [text |-> IF d.pending = "" THEN d.text ELSE d.text \o Replacement, pending |-> ""]

\* decoder.decode(value, {stream: true}): the unfinished sequence is kept
Decode(pend, value) == DecodeRange(value, 1, Len(value), pend)

(***************************************************************************)
(* handleSSEStream: the body of the read loop                              *)
(***************************************************************************)
DataPrefix == "data: "

DoneMarker == "[DONE]"

\* { type: 'text', content: data }
TextEvent(data) == JObj(<< <<"type", JStr("text")>>, <<"content", JStr(data)>> >>)

\* the catch block of the inner try: not JSON, treat as plain text
CatchAsText(acc, data) ==
  [events |-> Append(acc.events, TextEvent(data)),
   streamedText |-> acc.streamedText \o data]

\* the inner try after JSON.parse succeeded; acc already holds the pushed event
AfterPush(acc, parsed, data) ==
  IF PropReadThrows(parsed) THEN CatchAsText(acc, data)
  ELSE
    LET type == GetProp(parsed, "type") IN
    IF type = JStr("chunk") \/ type = JStr("delta")
    THEN [acc EXCEPT !.streamedText =
            @ \o ToStr(OrElse(OrElse(GetProp(parsed, "content"), GetProp(parsed, "text")),
                              JStr("")))]
    ELSE acc

\* one iteration of `for (const line of lines)`; acc = [events, streamedText]
ProcessLine(acc, line) ==
  IF ~StartsWith(line, DataPrefix) THEN acc
  ELSE
    LET data == Slice(line, 6) IN
    IF data = DoneMarker THEN acc
    ELSE
      LET p == JSONParse(data) IN
      IF ~p.ok THEN CatchAsText(acc, data)
      ELSE AfterPush([acc EXCEPT !.events = Append(@, p.val)], p.val, data)

RECURSIVE ProcessLines(_, _)
ProcessLines(acc, lines) ==
  IF lines = <<>> THEN acc
  ELSE ProcessLines(ProcessLine(acc, Head(lines)), Tail(lines))

\* a slip: the unfinished last line is thrown away instead of kept
KeepLastDropped(lines) == ""

\* buffer = lines.pop() || ''
KeepLast(lines) == Last(lines)

\* the locals of handleSSEStream before the first read
NewStream == [pending |-> "", buffer |-> "", events |-> <<>>, streamedText |-> ""]

\* one pass of the while loop for a read that returned {done: false, value}
ReadStep(st, value) ==
  LET dec == Decode(st.pending, value)
      lines == Split(st.buffer \o dec.text, "\n")
      acc == ProcessLines([events |-> st.events, streamedText |-> st.streamedText],
                          Front(lines))
  IN [pending |-> dec.pending,
      buffer |-> KeepLast(lines),
      events |-> acc.events,
      streamedText |-> acc.streamedText]

\* a slip: the events are tested before the text, which is then never returned
StreamResultEventsFirst(st) ==
  IF Len(st.events) > 0
  THEN JObj(<< <<"type", JStr("stream")>>,
               <<"events", JArr(st.events)>>,
               <<"eventCount", JNum(Len(st.events))>> >>)
  ELSE IF st.streamedText # ""
  THEN JObj(<< <<"type", JStr("stream")>>,
               <<"content", JStr(st.streamedText)>>,
               <<"events", JArr(st.events)>>,
               <<"eventCount", JNum(Len(st.events))>> >>)
  ELSE JObj(<< <<"type", JStr("stream")>>,
               <<"message", JStr("Stream completed with no data")>>,
               <<"events", JArr(<<>>)>> >>)

\* the value returned after the loop
StreamResult(st) ==
  IF st.streamedText # ""
  THEN JObj(<< <<"type", JStr("stream")>>,
               <<"content", JStr(st.streamedText)>>,
               <<"events", JArr(st.events)>>,
               <<"eventCount", JNum(Len(st.events))>> >>)
  ELSE IF Len(st.events) > 0
  THEN JObj(<< <<"type", JStr("stream")>>,
               <<"events", JArr(st.events)>>,
               <<"eventCount", JNum(Len(st.events))>> >>)
  ELSE JObj(<< <<"type", JStr("stream")>>,
               <<"message", JStr("Stream completed with no data")>>,
               <<"events", JArr(<<>>)>> >>)

(***************************************************************************)
(* encodeURIComponent and the classification loop of callTool              *)
(***************************************************************************)
\* the characters encodeURIComponent escapes, with their escapes: the printable
\* ASCII characters other than letters, digits, the nine marks it leaves alone
\* and the grave accent (which no string of the model contains), the newline
\* and EAcute; any other character of the model is left as it is
Escaped ==
  << <<" ", "%20">>, <<"\"", "%22">>, <<"#", "%23">>, <<"$", "%24">>, <<"%", "%25">>,
     <<"&", "%26">>, <<"+", "%2B">>, <<",", "%2C">>, <<"/", "%2F">>, <<":", "%3A">>,
     <<";", "%3B">>, <<"<", "%3C">>, <<"=", "%3D">>, <<">", "%3E">>, <<"?", "%3F">>,
     <<"[", "%5B">>, <<"\\", "%5C">>, <<"]", "%5D">>, <<"^", "%5E">>,
     <<"{", "%7B">>, <<"|", "%7C">>, <<"}", "%7D">>, <<EAcute, "%C3%A9">>,
     <<"\n", "%0A">> >>

EncodeChar(c) ==
  IF \E k \in 1..Len(Escaped) : Escaped[k][1] = c
  THEN Escaped[CHOOSE k \in 1..Len(Escaped) : Escaped[k][1] = c][2]
  ELSE c

RECURSIVE EncodeRange(_, _, _)
EncodeRange(s, lo, hi) ==
  IF lo > hi THEN ""
  ELSE IF lo = hi THEN EncodeChar(CharAt(s, lo))
  ELSE EncodeRange(s, lo, (lo + hi) \div 2) \o EncodeRange(s, (lo + hi) \div 2 + 1, hi)

\* encodeURIComponent(value): the value is converted to a string first
EncodeURIComponent(v) == EncodeRange(ToStr(v), 1, Len(ToStr(v)))

\* obj[key] = value on the members of an object
RECURSIVE SetProp(_, _, _)
SetProp(members, key, value) ==
  IF members = <<>> THEN << <<key, value>> >>
  ELSE IF Head(members)[1] = key THEN << <<key, value>> >> \o Tail(members)
  ELSE <<Head(members)>> \o SetProp(Tail(members), key, value)

Keys(members) == {members[k][1] : k \in 1..Len(members)}

\* `{${key}}`
Placeholder(key) == "{" \o key \o "}"

\* a slip: only GET sends the other arguments in the query string
ClassifyEntryGetOnly(c, method, key, value) ==
  IF Includes(c.requestUrl, Placeholder(key))
  THEN [c EXCEPT !.pathParams = SetProp(@, key, value),
                 !.requestUrl = Replace(@, Placeholder(key), EncodeURIComponent(value))]
  ELSE IF method = "GET"
  THEN [c EXCEPT !.queryParams = SetProp(@, key, value)]
  ELSE [c EXCEPT !.bodyParams = SetProp(@, key, value)]

\* a slip: the branches are not exclusive, a path parameter is classified by
\* the method as well
ClassifyEntryFallThrough(c, method, key, value) ==
  LET d == IF Includes(c.requestUrl, Placeholder(key))
           THEN [c EXCEPT !.pathParams = SetProp(@, key, value),
                          !.requestUrl =
                            Replace(@, Placeholder(key), EncodeURIComponent(value))]
           ELSE c
  IN IF method = "GET" \/ method = "DELETE"
     THEN [d EXCEPT !.queryParams = SetProp(@, key, value)]
     ELSE [d EXCEPT !.bodyParams = SetProp(@, key, value)]

\* a slip: the URL is searched for the key itself, without the braces
ClassifyEntryRawKey(c, method, key, value) ==
  IF Includes(c.requestUrl, key)
  THEN [c EXCEPT !.pathParams = SetProp(@, key, value),
                 !.requestUrl = Replace(@, key, EncodeURIComponent(value))]
  ELSE IF method = "GET" \/ method = "DELETE"
  THEN [c EXCEPT !.queryParams = SetProp(@, key, value)]
  ELSE [c EXCEPT !.bodyParams = SetProp(@, key, value)]

\* one iteration of the loop over Object.entries(args);
\* c = [requestUrl, pathParams, queryParams, bodyParams]
ClassifyEntry(c, method, key, value) ==
  IF Includes(c.requestUrl, Placeholder(key))
  THEN [c EXCEPT !.pathParams = SetProp(@, key, value),
                 !.requestUrl = Replace(@, Placeholder(key), EncodeURIComponent(value))]
  ELSE IF method = "GET" \/ method = "DELETE"
  THEN [c EXCEPT !.queryParams = SetProp(@, key, value)]
  ELSE [c EXCEPT !.bodyParams = SetProp(@, key, value)]

RECURSIVE ClassifyLoop(_, _, _)
ClassifyLoop(c, method, entries) ==
  IF entries = <<>> THEN c
  ELSE ClassifyLoop(ClassifyEntry(c, method, Head(entries)[1], Head(entries)[2]),
                    method, Tail(entries))

\* callTool up to the end of the classification loop; entries = Object.entries(args)
Classify(url, method, entries) ==
  ClassifyLoop([requestUrl |-> url, pathParams |-> <<>>, queryParams |-> <<>>,
                bodyParams |-> <<>>], method, entries)

(***************************************************************************)
(* new URLSearchParams(obj).toString() and JSON.stringify                  *)
(***************************************************************************)
\* application/x-www-form-urlencoded: a blank becomes "+", and of the marks
\* encodeURIComponent leaves alone only * - . _ stay
FormEscaped ==
  << <<" ", "+">>, <<"!", "%21">>, <<"'", "%27">>, <<"(", "%28">>, <<")", "%29">>,
     <<"~", "%7E">> >>

FormEncodeChar(c) ==
  IF \E k \in 1..Len(FormEscaped) : FormEscaped[k][1] = c
  THEN FormEscaped[CHOOSE k \in 1..Len(FormEscaped) : FormEscaped[k][1] = c][2]
  ELSE EncodeChar(c)

RECURSIVE FormEncodeRange(_, _, _)
FormEncodeRange(s, lo, hi) ==
  IF lo > hi THEN ""
  ELSE IF lo = hi THEN FormEncodeChar(CharAt(s, lo))
  ELSE FormEncodeRange(s, lo, (lo + hi) \div 2)
         \o FormEncodeRange(s, (lo + hi) \div 2 + 1, hi)

FormEncode(s) == FormEncodeRange(s, 1, Len(s))

\* new URLSearchParams(members).toString()
RECURSIVE SearchParams(_)
SearchParams(members) ==
  IF members = <<>> THEN ""
  ELSE FormEncode(Head(members)[1]) \o "=" \o FormEncode(ToStr(Head(members)[2]))
         \o (IF Len(members) = 1 THEN "" ELSE "&" \o SearchParams(Tail(members)))

\* JSON.stringify's escapes of ", \ and the newline inside a string
QuoteChar(c) ==
  IF c = "\"" THEN "\\\"" ELSE IF c = "\\" THEN "\\\\" ELSE IF c = "\n" THEN "\\n" ELSE c

RECURSIVE QuoteRange(_, _, _)
QuoteRange(s, lo, hi) ==
  IF lo > hi THEN ""
  ELSE IF lo = hi THEN QuoteChar(CharAt(s, lo))
  ELSE QuoteRange(s, lo, (lo + hi) \div 2) \o QuoteRange(s, (lo + hi) \div 2 + 1, hi)

Quote(s) == "\"" \o QuoteRange(s, 1, Len(s)) \o "\""

\* the members JSON.stringify writes: those whose value is not undefined
RECURSIVE Defined(_)
Defined(members) ==
  IF members = <<>> THEN <<>>
  ELSE IF Head(members)[2].kind = "undefined" THEN Defined(Tail(members))
  ELSE <<Head(members)>> \o Defined(Tail(members))

\* JSON.stringify(v, null, gap) at indentation ind; gap = "" is JSON.stringify(v)
RECURSIVE Stringify(_, _, _)
RECURSIVE StringifyItems(_, _, _)
RECURSIVE StringifyMembers(_, _, _)
Stringify(v, gap, ind) ==
  CASE v.kind \in {"undefined", "null"} -> "null"
    [] v.kind = "boolean" -> IF v.bool THEN "true" ELSE "false"
    [] v.kind = "number" -> NatToString(v.num)
    [] v.kind = "string" -> Quote(v.str)
    [] v.kind = "array" ->
         IF v.items = <<>> THEN "[]"
         ELSE IF gap = "" THEN "[" \o StringifyItems(v.items, gap, ind) \o "]"
         ELSE "[\n" \o ind \o gap \o StringifyItems(v.items, gap, ind \o gap)
                \o "\n" \o ind \o "]"
    [] OTHER ->
         IF Defined(v.members) = <<>> THEN "{}"
         ELSE IF gap = "" THEN "{" \o StringifyMembers(Defined(v.members), gap, ind) \o "}"
         ELSE "{\n" \o ind \o gap \o StringifyMembers(Defined(v.members), gap, ind \o gap)
                \o "\n" \o ind \o "}"

StringifyItems(items, gap, ind) ==
  Stringify(Head(items), gap, ind)
    \o (IF Len(items) = 1 THEN ""
        ELSE (IF gap = "" THEN "," ELSE ",\n" \o ind) \o StringifyItems(Tail(items), gap, ind))

StringifyMembers(members, gap, ind) ==
  Quote(Head(members)[1]) \o (IF gap = "" THEN ":" ELSE ": ")
    \o Stringify(Head(members)[2], gap, ind)
    \o (IF Len(members) = 1 THEN ""
        ELSE (IF gap = "" THEN "," ELSE ",\n" \o ind)
               \o StringifyMembers(Tail(members), gap, ind))

\* JSON.stringify(v)
JSONStringify(v) == Stringify(v, "", "")

\* JSON.stringify(v, null, 2)
JSONStringify2(v) == Stringify(v, "  ", "")

(***************************************************************************)
(* The state                                                               *)
(***************************************************************************)
VARIABLES
  startPc,         \* where start() stands: "new", "fetching", "fetched",
                   \* "connecting", "serving" or "failed"
  manifest,        \* this.manifest
  manifestWrites,  \* the number of assignments to this.manifest after the constructor
  handlers,        \* the methods that have a request handler registered
  startError,      \* the message of the error start() threw, "" if none
  listResult,      \* what the last tools/list request returned
  inv              \* the tools/call requests in flight, by slot

vars == <<startPc, manifest, manifestWrites, handlers, startError, listResult, inv>>

serverVars == <<startPc, manifest, manifestWrites, handlers, startError>>

\* the slots of the tools/call requests in flight
InvIds == DOMAIN inv

\* the response of a request that has not been answered
NoResponse == [status |-> 0, contentType |-> JNull, body |-> ""]

\* a slot with no request in it; when an invocation ends, its slot keeps the
\* locals as they were until the slot is released
IdleInv ==
  [pc |-> "idle", name |-> "", args |-> JUndefined, method |-> "", requestUrl |-> "",
   pathParams |-> <<>>, queryParams |-> <<>>, bodyParams |-> <<>>, body |-> JUndefined,
   fetches |-> 0, response |-> NoResponse, pos |-> 0, st |-> NewStream,
   result |-> JUndefined, reply |-> JUndefined, error |-> ""]

(***************************************************************************)
(* start() and fetchManifest()                                             *)
(***************************************************************************)
\* response.ok
Ok(status) == status >= 200 /\ status <= 299

\* response.text(): the whole body decoded at once
BodyText(body) == DecodeNoStream("", body).text

\* a slip: the length of the tools is not looked at
NoToolsMissingOnly(m) ==
  \/ ~Truthy(m)
  \/ ~Truthy(GetProp(m, "tools"))

\* !this.manifest || !this.manifest.tools || this.manifest.tools.length === 0
NoTools(m) ==
  \/ ~Truthy(m)
  \/ ~Truthy(GetProp(m, "tools"))
  \/ (GetProp(m, "tools").kind = "array" /\ Len(GetProp(m, "tools").items) = 0)

\* start() calls fetchManifest(), which awaits fetch(`${this.baseUrl}/mcp.json`)
StartFetch ==
  /\ startPc = "new"
  /\ startPc' = "fetching"
  /\ UNCHANGED <<manifest, manifestWrites, handlers, startError, listResult, inv>>

\* the fetch rejects: the catch block of fetchManifest rethrows, start() throws
ManifestFetchFails ==
  /\ startPc = "fetching"
  /\ startPc' = "failed"
  /\ startError' = "Could not connect to https://x/mcp.json - fetch failed"
  /\ UNCHANGED <<manifest, manifestWrites, handlers, listResult, inv>>

\* the manifest endpoint answers: fetchManifest from the status check to its return
ManifestResponse(status, body) ==
  /\ startPc = "fetching"
  /\ IF ~Ok(status)
     THEN /\ startPc' = "failed"
          /\ startError' = "Could not connect to https://x/mcp.json - Failed to fetch manifest: "
                             \o NatToString(status) \o " "
          /\ UNCHANGED <<manifest, manifestWrites>>
     ELSE IF ~JSONParse(BodyText(body)).ok
     THEN /\ startPc' = "failed"
          /\ startError' = "Could not connect to https://x/mcp.json - Unexpected token"
          /\ UNCHANGED <<manifest, manifestWrites>>
     ELSE /\ startPc' = "fetched"
          /\ manifest' = JSONParse(BodyText(body)).val
          /\ manifestWrites' = manifestWrites + 1
          /\ UNCHANGED startError
  /\ UNCHANGED <<handlers, listResult, inv>>

\* start() after fetchManifest returned: the check for tools, the two
\* setRequestHandler calls, up to the await of server.connect(transport)
RegisterHandlers ==
  /\ startPc = "fetched"
  /\ IF NoTools(manifest)
     THEN /\ startPc' = "failed"
          /\ startError' = "No tools found in MCP manifest"
          /\ UNCHANGED handlers
     ELSE /\ startPc' = "connecting"
          /\ handlers' = {"tools/list", "tools/call"}
          /\ UNCHANGED startError
  /\ UNCHANGED <<manifest, manifestWrites, listResult, inv>>

\* server.connect(transport) resolves: requests can arrive from now on
Connect ==
  /\ startPc = "connecting"
  /\ startPc' = "serving"
  /\ UNCHANGED <<manifest, manifestWrites, handlers, startError, listResult, inv>>

(***************************************************************************)
(* The tools/list handler                                                  *)
(***************************************************************************)
\* tool => ({ name, description, inputSchema })
Descriptor(tool) ==
  JObj(<< <<"name", GetProp(tool, "name")>>,
          <<"description", GetProp(tool, "description")>>,
          <<"inputSchema", GetProp(tool, "inputSchema")>> >>)

\* a slip: the tools are listed last first
ListToolsReversed(m) ==
  LET tools == GetProp(m, "tools").items IN
  JObj(<< <<"tools", JArr([k \in 1..Len(tools) |-> Descriptor(tools[Len(tools) + 1 - k])])>> >>)

\* { tools: this.manifest.tools.map(...) }
ListTools(m) ==
  LET tools == GetProp(m, "tools").items IN
  JObj(<< <<"tools", JArr([k \in 1..Len(tools) |-> Descriptor(tools[k])])>> >>)

ToolsList ==
  /\ startPc = "serving"
  /\ "tools/list" \in handlers
  /\ listResult' = ListTools(manifest)
  /\ UNCHANGED <<startPc, manifest, manifestWrites, handlers, startError, inv>>

(***************************************************************************)
(* The tools/call handler and callTool                                     *)
(***************************************************************************)
\* a slip: the lookup takes the first tool whose name starts with toolName
FindToolByPrefix(m, toolName) ==
  LET tools == GetProp(m, "tools").items
      hits == {k \in 1..Len(tools) : StartsWith(GetProp(tools[k], "name").str, toolName)}
  IN IF hits = {} THEN JUndefined
     ELSE tools[CHOOSE k \in hits : \A j \in hits : k <= j]

\* this.manifest.tools.find(t => t.name === toolName); undefined if none
FindTool(m, toolName) ==
  LET tools == GetProp(m, "tools").items
      hits == {k \in 1..Len(tools) : GetProp(tools[k], "name") = JStr(toolName)}
  IN IF hits = {} THEN JUndefined
     ELSE tools[CHOOSE k \in hits : \A j \in hits : k <= j]

\* the request URL after `// Add query parameters`
WithQuery(c) ==
  IF Len(c.queryParams) > 0
  THEN c.requestUrl \o "?" \o SearchParams(c.queryParams)
  ELSE c.requestUrl

\* a slip: the body is sent whenever the body mapping is not empty
RequestBodyAnyMethod(method, c) ==
  IF Len(c.bodyParams) > 0
  THEN JStr(JSONStringify(JObj(c.bodyParams)))
  ELSE JUndefined

\* options.body after `// Add body for POST/PUT/PATCH`; undefined if not set
RequestBody(method, c) ==
  IF method \in {"POST", "PUT", "PATCH"} /\ Len(c.bodyParams) > 0
  THEN JStr(JSONStringify(JObj(c.bodyParams)))
  ELSE JUndefined

\* callTool(tool, args) up to the await of fetch(requestUrl, options)
CallToolToFetch(tool, toolName, args) ==
  LET url == GetProp(GetProp(tool, "handler"), "url").str
      method == GetProp(GetProp(tool, "handler"), "method").str
      c == Classify(url, method, args.members)
  IN [IdleInv EXCEPT !.pc = "fetch", !.name = toolName, !.args = args,
                     !.method = method, !.requestUrl = WithQuery(c),
                     !.pathParams = c.pathParams, !.queryParams = c.queryParams,
                     !.bodyParams = c.bodyParams, !.body = RequestBody(method, c),
                     !.fetches = 1]

\* throw new Error(`Tool '${toolName}' not found`)
ToolNotFound(toolName, args) ==
  [IdleInv EXCEPT !.pc = "threw", !.name = toolName, !.args = args,
                  !.error = "Tool '" \o toolName \o "' not found"]

\* the tools/call handler from its entry to its first await (or its throw);
\* arguments is request.params.arguments, undefined when the request has none
BeginCall(m, toolName, arguments) ==
  LET args == OrElse(arguments, JObj(<<>>))
      tool == FindTool(m, toolName)
  IN IF ~Truthy(tool) THEN ToolNotFound(toolName, args)
     ELSE CallToolToFetch(tool, toolName, args)

\* contentType && contentType.includes(sub)
TypeIncludes(contentType, sub) == Truthy(contentType) /\ Includes(contentType.str, sub)

\* a slip: the content type is looked at before the status
OnResponseTypeFirst(rec, resp) ==
  IF TypeIncludes(resp.contentType, "text/event-stream")
  THEN [rec EXCEPT !.pc = "read", !.response = resp, !.pos = 0, !.st = NewStream]
  ELSE IF ~Ok(resp.status) THEN [rec EXCEPT !.pc = "errorText", !.response = resp]
  ELSE IF TypeIncludes(resp.contentType, "application/json")
  THEN [rec EXCEPT !.pc = "json", !.response = resp]
  ELSE [rec EXCEPT !.pc = "text", !.response = resp]

\* a slip: a response that does not declare an event stream is read as JSON,
\* whatever else it declares
OnResponseJsonDefault(rec, resp) ==
  IF ~Ok(resp.status) THEN [rec EXCEPT !.pc = "errorText", !.response = resp]
  ELSE IF TypeIncludes(resp.contentType, "text/event-stream")
  THEN [rec EXCEPT !.pc = "read", !.response = resp, !.pos = 0, !.st = NewStream]
  ELSE [rec EXCEPT !.pc = "json", !.response = resp]

\* callTool after fetch resolved, up to its next await
OnResponse(rec, resp) ==
  IF ~Ok(resp.status) THEN [rec EXCEPT !.pc = "errorText", !.response = resp]
  ELSE IF TypeIncludes(resp.contentType, "text/event-stream")
  THEN [rec EXCEPT !.pc = "read", !.response = resp, !.pos = 0, !.st = NewStream]
  ELSE IF TypeIncludes(resp.contentType, "application/json")
  THEN [rec EXCEPT !.pc = "json", !.response = resp]
  ELSE [rec EXCEPT !.pc = "text", !.response = resp]

\* throw new Error(`API error (${response.status}): ${errorText}`)
ApiError(status, errorText) == "API error (" \o NatToString(status) \o "): " \o errorText

\* a slip: a response that is not ok is answered by a second request
OnErrorTextRetry(rec) ==
  IF rec.fetches < 2
  THEN [rec EXCEPT !.pc = "fetch", !.fetches = @ + 1, !.response = NoResponse]
  ELSE [rec EXCEPT !.pc = "threw",
                   !.error = ApiError(rec.response.status, BodyText(rec.response.body))]

\* callTool after `await response.text()` of a response that is not ok
OnErrorText(rec) ==
  [rec EXCEPT !.pc = "threw",
              !.error = ApiError(rec.response.status, BodyText(rec.response.body))]

\* the handler's return value around callTool's result
HandlerResult(response) ==
  JObj(<< <<"content",
            JArr(<< JObj(<< <<"type", JStr("text")>>,
                            <<"text", JStr(JSONStringify2(response))>> >>) >>)>> >>)

\* callTool returns value; the handler wraps it and returns
Returned(rec, value) ==
  [rec EXCEPT !.pc = "returned", !.result = value, !.reply = HandlerResult(value)]

\* callTool after `await response.json()`: the parsed body, or the SyntaxError
OnJson(rec) ==
  LET p == JSONParse(BodyText(rec.response.body)) IN
  IF p.ok THEN Returned(rec, p.val)
  ELSE [rec EXCEPT !.pc = "threw", !.error = "Unexpected token"]

\* callTool after `await response.text()` of an ok response
OnText(rec) == Returned(rec, JStr(BodyText(rec.response.body)))

\* handleSSEStream after reader.read() resolved with {done: false, value}:
\* value is the next n bytes of the body
OnChunk(rec, n) ==
  [rec EXCEPT !.pos = @ + n,
              !.st = ReadStep(@, Sub(rec.response.body, rec.pos + 1, rec.pos + n))]

\* a slip: at the end of the stream what is left in the buffer is processed
\* as a last line
OnDoneFlush(rec) ==
  LET acc == ProcessLine([events |-> rec.st.events, streamedText |-> rec.st.streamedText],
                         rec.st.buffer)
      st == [rec.st EXCEPT !.events = acc.events, !.streamedText = acc.streamedText]
  IN Returned([rec EXCEPT !.st = st], StreamResult(st))

\* handleSSEStream after reader.read() resolved with {done: true}
OnDone(rec) == Returned(rec, StreamResult(rec.st))

\* a slip: the catch block returns what was accumulated so far
OnReadErrorPartial(rec, message) == Returned(rec, StreamResult(rec.st))

\* handleSSEStream's catch: throw new Error(`SSE stream error: ${error.message}`)
OnReadError(rec, message) ==
  [rec EXCEPT !.pc = "threw", !.error = "SSE stream error: " \o message]

\* a slip: a request for an unknown tool fetches the manifest again
ToolsCallRefetch(i, toolName, arguments) ==
  /\ startPc = "serving"
  /\ "tools/call" \in handlers
  /\ inv[i].pc = "idle"
  /\ inv' = [inv EXCEPT ![i] = BeginCall(manifest, toolName, arguments)]
  /\ manifestWrites' =
       IF Truthy(FindTool(manifest, toolName)) THEN manifestWrites ELSE manifestWrites + 1
  /\ UNCHANGED <<startPc, manifest, handlers, startError, listResult>>

\* a tools/call request arrives
ToolsCall(i, toolName, arguments) ==
  /\ startPc = "serving"
  /\ "tools/call" \in handlers
  /\ inv[i].pc = "idle"
  /\ inv' = [inv EXCEPT ![i] = BeginCall(manifest, toolName, arguments)]
  /\ UNCHANGED <<startPc, manifest, manifestWrites, handlers, startError, listResult>>

\* fetch(requestUrl, options) rejects: callTool throws, the handler rethrows
FetchFails(i) ==
  /\ inv[i].pc = "fetch"
  /\ inv' = [inv EXCEPT ![i] = [@ EXCEPT !.pc = "threw", !.error = "fetch failed"]]
  /\ UNCHANGED <<startPc, manifest, manifestWrites, handlers, startError, listResult>>

\* fetch(requestUrl, options) resolves with a response
Response(i, resp) ==
  /\ inv[i].pc = "fetch"
  /\ inv' = [inv EXCEPT ![i] = OnResponse(@, resp)]
  /\ UNCHANGED <<startPc, manifest, manifestWrites, handlers, startError, listResult>>

ErrorText(i) ==
  /\ inv[i].pc = "errorText"
  /\ inv' = [inv EXCEPT ![i] = OnErrorText(@)]
  /\ UNCHANGED <<startPc, manifest, manifestWrites, handlers, startError, listResult>>

JsonBody(i) ==
  /\ inv[i].pc = "json"
  /\ inv' = [inv EXCEPT ![i] = OnJson(@)]
  /\ UNCHANGED <<startPc, manifest, manifestWrites, handlers, startError, listResult>>

TextBody(i) ==
  /\ inv[i].pc = "text"
  /\ inv' = [inv EXCEPT ![i] = OnText(@)]
  /\ UNCHANGED <<startPc, manifest, manifestWrites, handlers, startError, listResult>>

\* a slip: the line buffer is a field of the server, which every stream that
\* is being read uses
ReadChunkSharedBuffer(i) ==
  /\ inv[i].pc = "read"
  /\ \E n \in 1..(Len(inv[i].response.body) - inv[i].pos) :
       LET rec == OnChunk(inv[i], n) IN
       inv' = [j \in InvIds |->
                 IF j = i THEN rec
                 ELSE IF inv[j].pc = "read" THEN [inv[j] EXCEPT !.st.buffer = rec.st.buffer]
                 ELSE inv[j]]
  /\ UNCHANGED <<startPc, manifest, manifestWrites, handlers, startError, listResult>>

\* reader.read() yields the next bytes of the body, however many the network
\* delivered
ReadChunk(i) ==
  /\ inv[i].pc = "read"
  /\ \E n \in 1..(Len(inv[i].response.body) - inv[i].pos) :
       inv' = [inv EXCEPT ![i] = OnChunk(@, n)]
  /\ UNCHANGED <<startPc, manifest, manifestWrites, handlers, startError, listResult>>

\* reader.read() reports the end of the body
ReadDone(i) ==
  /\ inv[i].pc = "read"
  /\ inv[i].pos = Len(inv[i].response.body)
  /\ inv' = [inv EXCEPT ![i] = OnDone(@)]
  /\ UNCHANGED <<startPc, manifest, manifestWrites, handlers, startError, listResult>>

\* the messages of the errors reader.read() rejects with
ReadFailures == {"terminated", "This operation was aborted"}

\* reader.read() rejects: the connection broke or the request was aborted
ReadFail(i) ==
  /\ inv[i].pc = "read"
  /\ \E message \in ReadFailures :
       inv' = [inv EXCEPT ![i] = OnReadError(@, message)]
  /\ UNCHANGED <<startPc, manifest, manifestWrites, handlers, startError, listResult>>

\* the protocol layer has sent the handler's result or error: the slot is free
Release(i) ==
  /\ inv[i].pc \in {"returned", "threw"}
  /\ inv' = [inv EXCEPT ![i] = IdleInv]
  /\ UNCHANGED <<startPc, manifest, manifestWrites, handlers, startError, listResult>>

(***************************************************************************)
(* Inputs                                                                  *)
(***************************************************************************)
\* the JSON text of one tool of a manifest
ToolJson(name, method, url) ==
  "{\"name\":\"" \o name \o "\",\"description\":\"d\",\"inputSchema\":{},\"handler\":{\"method\":\""
    \o method \o "\",\"url\":\"" \o url \o "\"}}"

RECURSIVE JoinComma(_)
JoinComma(ss) ==
  IF ss = <<>> THEN "" ELSE IF Len(ss) = 1 THEN Head(ss)
  ELSE Head(ss) \o "," \o JoinComma(Tail(ss))

\* the JSON text of a manifest with the given tools
ManifestJson(tools) == "{\"name\":\"demo\",\"tools\":[" \o JoinComma(tools) \o "]}"

DemoManifest ==
  ManifestJson(<<ToolJson("get_user", "GET", "https://x/users/{id}"),
                 ToolJson("chat", "POST", "https://x/chat")>>)

\* what the manifest endpoint may answer with
ManifestStatuses == {200, 404}

ManifestBodies == {DemoManifest, ManifestJson(<<>>), "{\"name\":\"demo\"}", "null", "oops"}

\* tools/call requests
CallNames == {"get_user", "chat", "nope"}

CallArguments == {JUndefined, JObj(<< <<"id", JStr("42")>> >>)}

\* what a tool endpoint may answer with
Statuses == {200, 403, 500}

ContentTypes ==
  {JNull, JStr("application/json"), JStr("text/plain"),
   JStr("text/event-stream; charset=utf-8")}

Bodies == {"not allowed", "{\"a\":1}", "data: hi\ndata: {\"type\":\"delta\",\"text\":\"^~\"}\n"}

Responses == [status : Statuses, contentType : ContentTypes, body : Bodies]

(***************************************************************************)
(* The server: startup, then one tools/call request at a time              *)
(***************************************************************************)
Init ==
  /\ startPc = "new"
  /\ manifest = JNull
  /\ manifestWrites = 0
  /\ handlers = {}
  /\ startError = ""
  /\ listResult = JUndefined
  /\ inv = [i \in {1} |-> IdleInv]

Next ==
  \/ StartFetch
  \/ ManifestFetchFails
  \/ \E status \in ManifestStatuses, body \in ManifestBodies : ManifestResponse(status, body)
  \/ RegisterHandlers
  \/ Connect
  \/ ToolsList
  \/ \E i \in InvIds, toolName \in CallNames, arguments \in CallArguments :
       ToolsCall(i, toolName, arguments)
  \/ \E i \in InvIds : FetchFails(i)
  \/ \E i \in InvIds, resp \in Responses : Response(i, resp)
  \/ \E i \in InvIds : ErrorText(i)
  \/ \E i \in InvIds : JsonBody(i)
  \/ \E i \in InvIds : TextBody(i)
  \/ \E i \in InvIds : ReadChunk(i)
  \/ \E i \in InvIds : ReadDone(i)
  \/ \E i \in InvIds : ReadFail(i)
  \/ \E i \in InvIds : Release(i)

Spec == Init /\ [][Next]_vars

(***************************************************************************)
(* The stream normalizer alone: a streaming response of the chat tool is   *)
(* read to its end, or to a failure, in reads of every possible size       *)
(***************************************************************************)
\* the lines a stream is made of, without their newline
StreamLines ==
  {"data: {\"type\":\"chunk\",\"text\":\"^~\"}",
   "data: [DONE]",
   "data: hey",
   "data: null",
   "data: 7",
   ""}

\* the most lines in a stream
MaxLines == 2

\* the streams of exactly n lines, each ended by its newline
RECURSIVE Terminated(_)
Terminated(n) ==
  IF n = 0 THEN {""}
  ELSE {s \o line \o "\n" : s \in Terminated(n - 1), line \in StreamLines}

DeltaStream ==
  "data: {\"type\":\"delta\",\"content\":\"Hi\"}\n"
    \o "data: {\"type\":\"delta\",\"content\":\" there\"}\n"
    \o "data: [DONE]\n"

\* an event of another type, then a delta with a text
ProgressStream ==
  "data: {\"type\":\"progress\",\"message\":\"m\"}\n"
    \o "data: {\"type\":\"delta\",\"text\":\"T\"}\n"

\* every stream of at most MaxLines lines, the last one ended by a newline or
\* not, and the two streams above
StreamInputs ==
  UNION {Terminated(n) : n \in 0..MaxLines}
    \cup UNION {{s \o line : s \in Terminated(n - 1), line \in StreamLines \ {""}} :
                 n \in 1..MaxLines}
    \cup {DeltaStream, ProgressStream}

ChatArguments == JObj(<< <<"prompt", JStr("hi")>> >>)

\* the server after startup with the manifest of the given text
Serving(body) ==
  /\ startPc = "serving"
  /\ manifest = JSONParse(BodyText(body)).val
  /\ manifestWrites = 1
  /\ handlers = {"tools/list", "tools/call"}
  /\ startError = ""
  /\ listResult = JUndefined

InitStream ==
  /\ Serving(DemoManifest)
  /\ \E body \in StreamInputs :
       inv = [i \in {1} |->
                OnResponse(BeginCall(JSONParse(BodyText(DemoManifest)).val, "chat",
                                     ChatArguments),
                           [status |-> 200, contentType |-> JStr("text/event-stream"),
                            body |-> body])]

NextStream ==
  \/ \E i \in InvIds : ReadChunk(i)
  \/ \E i \in InvIds : ReadDone(i)
  \/ \E i \in InvIds : ReadFail(i)

SpecStream == InitStream /\ [][NextStream]_vars

(***************************************************************************)
(* The argument router alone: tools of every method and template shape are *)
(* called with every argument map of at most MaxArgs entries               *)
(***************************************************************************)
RouterManifest ==
  ManifestJson(<<ToolJson("get_user", "GET", "https://x/users/{id}"),
                 ToolJson("twice", "GET", "https://x/a/{id}/b/{id}"),
                 ToolJson("update", "PUT", "https://x/users/{id}"),
                 ToolJson("amend", "PATCH", "https://x/users/{id}"),
                 ToolJson("chat", "POST", "https://x/chat"),
                 ToolJson("remove", "DELETE", "https://x/items/{item_id}"),
                 ToolJson("pair", "GET", "https://x/{item_id}/{id}"),
                 ToolJson("probe", "OPTIONS", "https://x/probe")>>)

RouterNames == {"get_user", "twice", "update", "amend", "chat", "remove", "pair", "probe", "nope", "get"}

ArgKeys == {"id", "item_id", "q"}

ArgValues == {JStr("42"), JStr("a b"), JStr("{q}"), JNum(7)}

\* the most entries in an argument map
MaxArgs == 2

\* the argument maps of exactly n entries, as members in insertion order
RECURSIVE Entries(_)
Entries(n) ==
  IF n = 0 THEN {<<>>}
  ELSE UNION {{Append(m, <<k, v>>) : k \in ArgKeys \ Keys(m), v \in ArgValues} :
               m \in Entries(n - 1)}

RouterArguments == {JUndefined} \cup {JObj(m) : m \in UNION {Entries(n) : n \in 0..MaxArgs}}

OkJson == [status |-> 200, contentType |-> JStr("application/json"), body |-> "{\"a\":1}"]

InitRouter ==
  /\ Serving(RouterManifest)
  /\ inv = [i \in {1} |-> IdleInv]

NextRouter ==
  \/ \E i \in InvIds, toolName \in RouterNames, arguments \in RouterArguments :
       ToolsCall(i, toolName, arguments)
  \/ \E i \in InvIds : FetchFails(i)
  \/ \E i \in InvIds : Response(i, OkJson)
  \/ \E i \in InvIds : JsonBody(i)
  \/ \E i \in InvIds : Release(i)

SpecRouter == InitRouter /\ [][NextRouter]_vars

(***************************************************************************)
(* Two requests in flight: the protocol layer hands a tools/call request   *)
(* to the handler while the handler of another awaits the network, so the  *)
(* steps of the two interleave at the awaits                               *)
(***************************************************************************)
\* what the chat endpoint answers with: two short streams, one with a
\* character of two bytes, and a JSON value
PairResponses ==
  {[status |-> 200, contentType |-> JStr("text/event-stream"), body |-> "data: hi\n"],
   [status |-> 200, contentType |-> JStr("text/event-stream"),
    body |-> "data: ^~\ndata: 7\n"],
   OkJson}

InitPair ==
  /\ Serving(DemoManifest)
  /\ inv = [i \in {1, 2} |-> IdleInv]

NextPair ==
  \/ \E i \in InvIds : ToolsCall(i, "chat", ChatArguments)
  \/ \E i \in InvIds, resp \in PairResponses : Response(i, resp)
  \/ \E i \in InvIds : JsonBody(i)
  \/ \E i \in InvIds : ReadChunk(i)
  \/ \E i \in InvIds : ReadDone(i)
  \/ \E i \in InvIds : ReadFail(i)
  \/ \E i \in InvIds : Release(i)

SpecPair == InitPair /\ [][NextPair]_vars

(***************************************************************************)
(* Properties                                                              *)
(***************************************************************************)
\* the invocation in slot i got a streaming response and handleSSEStream returned
StreamReturned(i) ==
  /\ inv[i].pc = "returned"
  /\ Ok(inv[i].response.status)
  /\ TypeIncludes(inv[i].response.contentType, "text/event-stream")

\* the events and the accumulated text of a stream result
EventsOf(result) == GetProp(result, "events").items

TextOf(result) ==
  IF GetProp(result, "content").kind = "string" THEN GetProp(result, "content").str ELSE ""

\* C1: however the bytes of a stream were split across reads, handleSSEStream
\* returns the events and the accumulated text it returns when all the bytes
\* arrive in one read.
SplitInvariance ==
  \A i \in InvIds :
    StreamReturned(i) =>
      LET oneRead == StreamResult(ReadStep(NewStream, inv[i].response.body)) IN
      /\ EventsOf(inv[i].result) = EventsOf(oneRead)
      /\ TextOf(inv[i].result) = TextOf(oneRead)
      /\ inv[i].result = oneRead

\* a read ended in the middle of the "data: " prefix of the second line of the
\* delta stream, after the first line's event was recorded
SplitInPrefix ==
  \E i \in InvIds :
    /\ inv[i].pc = "read"
    /\ inv[i].response.body = DeltaStream
    /\ inv[i].st.buffer = "dat"
    /\ Len(inv[i].st.events) = 1

\* the lines of a body that handleSSEStream is to process: those ended by a newline
CompleteLines(body) == Front(Split(BodyText(body), "\n"))

\* a data line that is not the [DONE] sentinel
IsDataLine(line) == StartsWith(line, "data: ") /\ Slice(line, 6) # "[DONE]"

\* the payloads of such lines of a body, in arrival order
Payloads(body) ==
  LET lines == SelectSeq(CompleteLines(body), IsDataLine) IN
  [k \in 1..Len(lines) |-> Slice(lines[k], 6)]

\* what one payload adds to the accumulated text, as the specification has it
Contribution(payload) ==
  LET p == JSONParse(payload) IN
  IF ~p.ok THEN payload
  ELSE IF GetProp(p.val, "type") \in {JStr("chunk"), JStr("delta")}
  THEN IF GetProp(p.val, "content").kind # "undefined" THEN ToStr(GetProp(p.val, "content"))
       ELSE IF GetProp(p.val, "text").kind # "undefined" THEN ToStr(GetProp(p.val, "text"))
       ELSE ""
  ELSE ""

Contributions(payloads) ==
  Concat([k \in 1..Len(payloads) |-> Contribution(payloads[k])])

\* C8: the accumulated text of a completed stream is the concatenation, in
\* arrival order, of the content (or text) of every chunk or delta event and of
\* the raw payload of every data line that is not valid JSON, and of nothing else.
AccumulatedTextIsDeltasAndRawText ==
  \A i \in InvIds :
    StreamReturned(i) =>
      TextOf(inv[i].result) = Contributions(Payloads(inv[i].response.body))

\* C9: a completed stream has recorded exactly one event for every data line
\* whose payload is not [DONE], and none for any other line.
OneEventPerDataLine ==
  \A i \in InvIds :
    StreamReturned(i) =>
      Len(EventsOf(inv[i].result)) = Len(Payloads(inv[i].response.body))

\* the tool a slot's invocation names, and its URL template and method
ToolOf(i) == FindTool(manifest, inv[i].name)

TemplateOf(i) == GetProp(GetProp(ToolOf(i), "handler"), "url").str

MethodOf(i) == GetProp(GetProp(ToolOf(i), "handler"), "method").str

\* the invocation in slot i has been routed: its tool was found and callTool
\* classified its arguments
Routed(i) == inv[i].pc # "idle" /\ Truthy(ToolOf(i))

Pairs(members) == {members[k] : k \in 1..Len(members)}

\* C2: when the template has the placeholder {id} and the arguments have the
\* key id, the request URL has no {id} left and id is in neither the query nor
\* the body mapping.
PathParameterExclusion ==
  \A i \in InvIds :
    (Routed(i) /\ Includes(TemplateOf(i), "{id}") /\ "id" \in Keys(inv[i].args.members)) =>
      /\ ~Includes(inv[i].requestUrl, "{id}")
      /\ "id" \notin Keys(inv[i].queryParams)
      /\ "id" \notin Keys(inv[i].bodyParams)

\* C3: a response with a non-success status, whatever its content type, makes
\* the invocation fail with an error that carries the status and the body
\* text; no result is returned and the stream normalizer is never entered.
NonSuccessIsApiError ==
  \A i \in InvIds :
    (inv[i].response.status # 0 /\ ~Ok(inv[i].response.status)) =>
      /\ inv[i].pc \in {"errorText", "threw"}
      /\ inv[i].st = NewStream /\ inv[i].pos = 0
      /\ inv[i].result = JUndefined /\ inv[i].reply = JUndefined
      /\ inv[i].pc = "threw" =>
           /\ Includes(inv[i].error, "(" \o NatToString(inv[i].response.status) \o ")")
           /\ Slice(inv[i].error, Len(inv[i].error) - Len(BodyText(inv[i].response.body)))
                = BodyText(inv[i].response.body)

\* a 403 with an event-stream content type has failed as an API error
ForbiddenStreamFailed ==
  \E i \in InvIds :
    /\ inv[i].pc = "threw"
    /\ inv[i].response.status = 403
    /\ TypeIncludes(inv[i].response.contentType, "text/event-stream")
    /\ inv[i].response.body = "not allowed"
    /\ inv[i].error = "API error (403): not allowed"

\* the invocation in slot i got a streaming response
Streaming(i) ==
  /\ Ok(inv[i].response.status)
  /\ TypeIncludes(inv[i].response.contentType, "text/event-stream")

\* C4: a stream whose read fails, whatever was accumulated, ends with the
\* invocation failing with a stream error that carries the cause, and returns
\* no result; only a stream read to its end returns one.
StreamFailureDiscardsPartial ==
  /\ [](\A i \in InvIds :
          (Streaming(i) /\ inv[i].pc = "threw") =>
            /\ inv[i].result = JUndefined /\ inv[i].reply = JUndefined
            /\ \E cause \in ReadFailures : inv[i].error = "SSE stream error: " \o cause)
  /\ [](\A i \in InvIds :
          (Streaming(i) /\ inv[i].pc = "returned") =>
            inv[i].pos = Len(inv[i].response.body))
  /\ [][\A i \in InvIds :
          (Streaming(i) /\ inv[i].pc = "read" /\ inv'[i].pc # "read"
             /\ inv[i].pos < Len(inv[i].response.body)) =>
            inv'[i].pc = "threw"]_vars

\* a read failed by an abort after an event and some text were accumulated
AbortedAfterEvents ==
  \E i \in InvIds :
    /\ inv[i].pc = "threw"
    /\ Len(inv[i].st.events) >= 1
    /\ inv[i].st.streamedText # ""
    /\ inv[i].error = "SSE stream error: This operation was aborted"
    /\ inv[i].result = JUndefined

\* the names of the tools of a manifest
ToolNames(m) ==
  {GetProp(GetProp(m, "tools").items[k], "name") : k \in 1..Len(GetProp(m, "tools").items)}

\* C5: an invocation of a name that is no tool of the cached manifest fails
\* with the tool-not-found error and issues no HTTP request.
UnknownToolNotFound ==
  \A i \in InvIds :
    (inv[i].pc # "idle" /\ JStr(inv[i].name) \notin ToolNames(manifest)) =>
      /\ inv[i].pc = "threw"
      /\ inv[i].error = "Tool '" \o inv[i].name \o "' not found"
      /\ inv[i].fetches = 0
      /\ inv[i].requestUrl = ""
      /\ inv[i].response = NoResponse

\* the name "get", a prefix of a tool's name, was called with an argument
PrefixNameNotFound ==
  \E i \in InvIds :
    /\ inv[i].pc = "threw"
    /\ inv[i].name = "get"
    /\ Len(inv[i].args.members) > 0
    /\ inv[i].fetches = 0

\* C6: an argument whose key fills no placeholder of the template is in the
\* query mapping and not in the body mapping when the method is GET or DELETE,
\* and in the body mapping and not in the query mapping for any other method.
MethodClassification ==
  \A i \in InvIds :
    Routed(i) =>
      \A k \in 1..Len(inv[i].args.members) :
        LET entry == inv[i].args.members[k] IN
        ~Includes(TemplateOf(i), Placeholder(entry[1])) =>
          IF MethodOf(i) \in {"GET", "DELETE"}
          THEN entry \in Pairs(inv[i].queryParams) /\ entry[1] \notin Keys(inv[i].bodyParams)
          ELSE entry \in Pairs(inv[i].bodyParams) /\ entry[1] \notin Keys(inv[i].queryParams)

\* a DELETE was routed with one path parameter and one query parameter
DeleteWithQuery ==
  \E i \in InvIds :
    /\ Routed(i)
    /\ MethodOf(i) = "DELETE"
    /\ Len(inv[i].pathParams) = 1
    /\ Len(inv[i].queryParams) = 1

\* C7: the path, query and body mappings are pairwise disjoint, together they
\* hold exactly the keys of the arguments, and each key has the caller's value.
ArgumentsPartitioned ==
  \A i \in InvIds :
    Routed(i) =>
      LET path == inv[i].pathParams
          query == inv[i].queryParams
          body == inv[i].bodyParams
      IN /\ Keys(path) \cap Keys(query) = {}
         /\ Keys(path) \cap Keys(body) = {}
         /\ Keys(query) \cap Keys(body) = {}
         /\ Keys(path) \cup Keys(query) \cup Keys(body) = Keys(inv[i].args.members)
         /\ Pairs(path) \cup Pairs(query) \cup Pairs(body) = Pairs(inv[i].args.members)
         /\ Len(path) + Len(query) + Len(body) = Len(inv[i].args.members)

\* a PUT was routed with one path parameter and one body field
PutWithPathAndBody ==
  \E i \in InvIds :
    /\ Routed(i)
    /\ MethodOf(i) = "PUT"
    /\ Len(inv[i].pathParams) = 1
    /\ Len(inv[i].bodyParams) = 1

\* C10: this.manifest is assigned once, before the handlers are registered and
\* so before any invocation, and nothing changes it or the rest of the server's
\* state afterwards, whatever requests succeed or fail.
ManifestWrittenOnce ==
  /\ [](manifestWrites <= 1)
  /\ [](handlers # {} => manifestWrites = 1)
  /\ []((\E i \in InvIds : inv[i].pc # "idle") => (manifestWrites = 1 /\ handlers # {}))
  /\ [][manifestWrites = 1 => (manifest' = manifest /\ manifestWrites' = manifestWrites)]_vars
  /\ [][startPc = "serving" => UNCHANGED serverVars]_vars

\* after a tools/list request, an invocation has failed with the manifest in place
FailedWhileServing ==
  \E i \in InvIds :
    /\ inv[i].pc = "threw"
    /\ listResult # JUndefined
    /\ manifestWrites = 1
    /\ manifest = JSONParse(DemoManifest).val

\* C11: the request has a body exactly when the method is POST, PUT or PATCH
\* and the body mapping is not empty, and the body is then JSON text that
\* parses back to the body mapping, key for key in order; any other method,
\* and an empty body mapping, send no body.
BodyOnlyForPostPutPatch ==
  \A i \in InvIds :
    Routed(i) =>
      LET sends == MethodOf(i) \in {"POST", "PUT", "PATCH"} /\ inv[i].bodyParams # <<>> IN
      /\ sends <=> inv[i].body.kind # "undefined"
      /\ sends =>
           /\ inv[i].body.kind = "string"
           /\ JSONParse(inv[i].body.str) = [ok |-> TRUE, val |-> JObj(inv[i].bodyParams)]

\* a PATCH was routed with one path parameter and the body {"q":"a b"}
PatchWithBody ==
  \E i \in InvIds :
    /\ Routed(i)
    /\ MethodOf(i) = "PATCH"
    /\ Len(inv[i].pathParams) = 1
    /\ inv[i].body = JStr("{\"q\":\"a b\"}")

\* a string with every occurrence of p replaced by r, for an r that has no p in it
RECURSIVE ReplaceAll(_, _, _)
ReplaceAll(s, p, r) == IF Includes(s, p) THEN ReplaceAll(Replace(s, p, r), p, r) ELSE s

\* a template with every placeholder that an entry names replaced by the
\* percent-encoded value of the entry
RECURSIVE Filled(_, _)
Filled(template, entries) ==
  IF entries = <<>> THEN template
  ELSE Filled(ReplaceAll(template, Placeholder(Head(entries)[1]),
                         EncodeURIComponent(Head(entries)[2])),
              Tail(entries))

\* C12: the request URL has a query string exactly when the query mapping is
\* not empty; when every argument fills a placeholder, one request is issued,
\* to the template with each of these placeholders replaced by the
\* percent-encoded value, without a query string and without a body, so
\* get_user with id "42" is requested from https://x/users/42.
QueryOnlyWhenQueryParams ==
  \A i \in InvIds :
    Routed(i) =>
      /\ Includes(inv[i].requestUrl, "?") <=> inv[i].queryParams # <<>>
      /\ (inv[i].args.members # <<>> /\ Len(inv[i].pathParams) = Len(inv[i].args.members)) =>
           /\ inv[i].fetches = 1
           /\ inv[i].requestUrl = Filled(TemplateOf(i), inv[i].args.members)
           /\ ~Includes(inv[i].requestUrl, "?")
           /\ inv[i].body = JUndefined
      /\ (inv[i].name = "get_user" /\ inv[i].args = JObj(<< <<"id", JStr("42")>> >>)) =>
           /\ inv[i].method = "GET"
           /\ inv[i].requestUrl = "https://x/users/42"

\* C13: a response with a success status is handled by exactly one of three
\* branches, chosen by its content type: an event stream is read by
\* handleSSEStream and its result returned; otherwise a JSON response returns
\* the parsed body, so the body {"a":1} returns the object with a = 1; any
\* other response, and one without a content type, returns the body as text.
ResultByContentType ==
  \A i \in InvIds :
    Ok(inv[i].response.status) =>
      LET type == inv[i].response.contentType
          text == BodyText(inv[i].response.body)
          done == inv[i].pc = "returned"
      IN IF TypeIncludes(type, "text/event-stream")
         THEN /\ inv[i].pc \in {"read", "returned", "threw"}
              /\ done => inv[i].result = StreamResult(inv[i].st)
              /\ done => GetProp(inv[i].result, "type") = JStr("stream")
         ELSE IF TypeIncludes(type, "application/json")
         THEN /\ inv[i].pc \in {"json", "returned", "threw"}
              /\ inv[i].st = NewStream
              /\ done => JSONParse(text) = [ok |-> TRUE, val |-> inv[i].result]
              /\ (done /\ text = "{\"a\":1}") => inv[i].result = JObj(<< <<"a", JNum(1)>> >>)
              /\ inv[i].pc = "threw" => ~JSONParse(text).ok
         ELSE /\ inv[i].pc \in {"text", "returned"}
              /\ inv[i].st = NewStream
              /\ done => inv[i].result = JStr(text)

\* a response of type application/json with the body {"a":1} returned the
\* object with a = 1
JsonRoundTrip ==
  \E i \in InvIds :
    /\ inv[i].pc = "returned"
    /\ inv[i].response.status = 200
    /\ inv[i].response.contentType = JStr("application/json")
    /\ inv[i].response.body = "{\"a\":1}"
    /\ inv[i].result = JObj(<< <<"a", JNum(1)>> >>)

\* the names of the properties of an object
Names(v) == Keys(v.members)

\* C14: the result of a stream read to its end has one of three shapes, by the
\* locals at the end: with accumulated text, the text, the events and their
\* number; without text but with events, the events and their number and no
\* text; without events, no events, no text and a message that says so.
ThreeStreamShapes ==
  \A i \in InvIds :
    StreamReturned(i) =>
      LET st == inv[i].st
          result == inv[i].result
      IN /\ GetProp(result, "type") = JStr("stream")
         /\ GetProp(result, "events") = JArr(st.events)
         /\ IF st.streamedText # ""
            THEN /\ Names(result) = {"type", "content", "events", "eventCount"}
                 /\ GetProp(result, "content") = JStr(st.streamedText)
                 /\ GetProp(result, "eventCount") = JNum(Len(st.events))
            ELSE IF st.events # <<>>
            THEN /\ Names(result) = {"type", "events", "eventCount"}
                 /\ GetProp(result, "eventCount") = JNum(Len(st.events))
            ELSE /\ Names(result) = {"type", "message", "events"}
                 /\ GetProp(result, "message").kind = "string"
                 /\ GetProp(result, "message").str # ""

\* a stream of two events that are neither chunks nor deltas was read to its
\* end: the result has the two events and no text
EventsWithoutText ==
  \E i \in InvIds :
    /\ StreamReturned(i)
    /\ inv[i].st.streamedText = ""
    /\ Len(inv[i].st.events) = 2
    /\ GetProp(inv[i].result, "eventCount") = JNum(2)
    /\ GetProp(inv[i].result, "content") = JUndefined

\* the number of tools of a manifest, 0 for one that has no tools at all
ToolCount(m) ==
  IF GetProp(m, "tools").kind = "array" THEN Len(GetProp(m, "tools").items) ELSE 0

\* start() threw the error of fetchManifest's catch block
ManifestUnavailable ==
  startPc = "failed" /\ StartsWith(startError, "Could not connect to https://x/mcp.json - ")

\* start() threw the error of its check for tools
ManifestEmpty == startPc = "failed" /\ startError = "No tools found in MCP manifest"

\* the manifest endpoint gives no usable answer in this step
UnusableAnswer ==
  /\ startPc = "fetching"
  /\ \/ ManifestFetchFails
     \/ \E status \in ManifestStatuses, body \in ManifestBodies :
          /\ ~Ok(status) \/ ~JSONParse(BodyText(body)).ok
          /\ ManifestResponse(status, body)

\* C15: when the manifest endpoint cannot be reached, answers with a
\* non-success status or with a body that is not JSON, start() fails with the
\* error of fetchManifest; when the parsed manifest has no tools, start() fails
\* with the no-tools error; a failed start has registered no handler, never
\* connects the transport and serves no request.
UnusableManifestAbortsStartup ==
  /\ [][UnusableAnswer => ManifestUnavailable']_vars
  /\ [][(startPc = "fetched" /\ ToolCount(manifest) = 0 /\ startPc' # startPc)
          => ManifestEmpty']_vars
  /\ [](startPc = "failed" =>
          /\ ManifestUnavailable \/ ManifestEmpty
          /\ ManifestUnavailable <=> manifestWrites = 0
          /\ handlers = {}
          /\ listResult = JUndefined
          /\ \A i \in InvIds : inv[i].pc = "idle")
  /\ [](startPc \in {"connecting", "serving"} =>
          (startError = "" /\ manifestWrites = 1 /\ ToolCount(manifest) > 0))
  /\ [](handlers # {} => startPc \in {"connecting", "serving"})
  /\ [][startPc = "failed" => UNCHANGED vars]_vars

\* start() failed on a manifest with an empty list of tools
EmptyManifestFailed ==
  /\ ManifestEmpty
  /\ manifest = JSONParse(ManifestJson(<<>>)).val
  /\ manifestWrites = 1
  /\ handlers = {}

\* C16: an invocation calls fetch at most once, and not at all when its tool
\* is not in the manifest; it waits for a response only right after it arrived,
\* gets at most one response, and once it has thrown (tool not found, API
\* error, stream error or any other) it takes no further step.
NoRetry ==
  /\ [](\A i \in InvIds :
          /\ inv[i].fetches <= 1
          /\ inv[i].fetches = 0 <=> (inv[i].pc = "idle" \/ ~Truthy(ToolOf(i))))
  /\ [][\A i \in InvIds :
          (inv'[i].pc = "fetch" /\ inv[i].pc # "fetch") => inv[i].pc = "idle"]_vars
  /\ [][\A i \in InvIds :
          inv[i].response # NoResponse =>
            (inv'[i].response = inv[i].response \/ inv'[i] = IdleInv)]_vars
  /\ [][\A i \in InvIds :
          inv[i].pc = "threw" => (inv'[i] = inv[i] \/ inv'[i] = IdleInv)]_vars

\* a stream read failed after the one request of its invocation
StreamErrorAfterOneFetch ==
  \E i \in InvIds :
    /\ inv[i].pc = "threw"
    /\ StartsWith(inv[i].error, "SSE stream error: ")
    /\ inv[i].pos > 0
    /\ inv[i].fetches = 1

\* what callTool returns for a response when no other request is in flight
AloneResult(resp) ==
  IF TypeIncludes(resp.contentType, "text/event-stream")
  THEN StreamResult(ReadStep(NewStream, resp.body))
  ELSE IF TypeIncludes(resp.contentType, "application/json")
  THEN JSONParse(BodyText(resp.body)).val
  ELSE JStr(BodyText(resp.body))

\* C17: with two invocations in flight whose steps interleave at the awaits,
\* a step of one leaves the other as it was; the line buffer, the events and
\* the accumulated text of each are those of the bytes it has read of its own
\* response; and each returns the result it returns when run alone.
InvocationsIsolated ==
  /\ [][\A i, j \in InvIds : (i # j /\ inv'[i] # inv[i]) => inv'[j] = inv[j]]_vars
  /\ [](\A i \in InvIds :
          inv[i].pc \in {"read", "returned", "threw"} =>
            LET own == ReadStep(NewStream, Sub(inv[i].response.body, 1, inv[i].pos)) IN
            /\ inv[i].st.buffer = own.buffer
            /\ inv[i].st.events = own.events
            /\ inv[i].st.streamedText = own.streamedText)
  /\ [](\A i \in InvIds :
          inv[i].pc = "returned" => inv[i].result = AloneResult(inv[i].response))

\* two streams are being read at once: one stopped inside a line, the other
\* inside a character, after its first line was processed
TwoStreamsMidRead ==
  /\ inv[1].pc = "read" /\ inv[1].st.buffer = "data: h"
  /\ inv[2].pc = "read" /\ inv[2].st.pending # "" /\ Len(inv[2].st.events) = 0
  /\ inv[2].st.buffer = "data: "

\* C18: what tools/list returns has one entry for each tool of the cached
\* manifest, in the manifest's order, with the tool's name, description and
\* input schema and nothing else; every later tools/list request, whatever
\* invocations ran in between, returns the same.
ListIsManifestProjection ==
  /\ [](listResult # JUndefined =>
          LET listed == GetProp(listResult, "tools").items
              tools == GetProp(manifest, "tools").items
          IN /\ Len(listed) = Len(tools)
             /\ \A k \in 1..Len(tools) :
                  /\ Names(listed[k]) = {"name", "description", "inputSchema"}
                  /\ \A f \in Names(listed[k]) : GetProp(listed[k], f) = GetProp(tools[k], f))
  /\ [][listResult # JUndefined => listResult' = listResult]_vars

\* tools/list has been answered with get_user before chat, and a stream is
\* being read
ListedWhileReading ==
  /\ listResult # JUndefined
  /\ GetProp(GetProp(listResult, "tools").items[1], "name") = JStr("get_user")
  /\ GetProp(GetProp(listResult, "tools").items[2], "name") = JStr("chat")
  /\ \E i \in InvIds : inv[i].pc = "read" /\ inv[i].pos > 0

\* the request URL without its query string
Resolved(i) ==
  IF Includes(inv[i].requestUrl, "?")
  THEN Sub(inv[i].requestUrl, 1, IndexOf(inv[i].requestUrl, "?", 1) - 1)
  ELSE inv[i].requestUrl

\* the orders in which the entries of an argument map can be processed
Orders(entries) ==
  LET n == Len(entries) IN
  {[k \in 1..n |-> entries[f[k]]] :
     f \in {g \in [1..n -> 1..n] : \A a, b \in 1..n : g[a] = g[b] => a = b}}

\* C19: an argument is a path parameter exactly when the template has its
\* key between braces; a placeholder of another name, also of a name that
\* contains the key, stays in the URL when no argument names it; the URL has
\* no placeholder that the template does not have, whatever the values; and
\* processing the arguments in any other order resolves the same URL.
ExactDelimiterMatching ==
  \A i \in InvIds :
    Routed(i) =>
      LET entries == inv[i].args.members
          template == TemplateOf(i)
      IN /\ Keys(inv[i].pathParams) =
              {k \in Keys(entries) : Includes(template, Placeholder(k))}
         /\ \A k \in ArgKeys \ Keys(entries) :
              Includes(template, Placeholder(k)) => Includes(Resolved(i), Placeholder(k))
         /\ \A k \in ArgKeys :
              Includes(inv[i].requestUrl, Placeholder(k)) => Includes(template, Placeholder(k))
         /\ \A order \in Orders(entries) :
              Classify(template, MethodOf(i), order).requestUrl = Resolved(i)

\* the key id was substituted into a template that also has {item_id}, which
\* no argument names: {item_id} is still in the URL
ItemIdLeftIntact ==
  \E i \in InvIds :
    /\ Routed(i)
    /\ inv[i].name = "pair"
    /\ Keys(inv[i].args.members) = {"id", "q"}
    /\ inv[i].args.members[1] = <<"id", JStr("{q}")>>
    /\ Resolved(i) = "https://x/{item_id}/%7Bq%7D"

\* the position of the last newline of a body, 0 if it has none
LastNewline(body) ==
  LET at == {k \in 1..Len(body) : CharAt(body, k) = "\n"} IN
  IF at = {} THEN 0 ELSE CHOOSE k \in at : \A j \in at : j <= k

\* { type: 'stream', message: 'Stream completed with no data', events: [] }
EmptyStreamResult ==
  JObj(<< <<"type", JStr("stream")>>,
          <<"message", JStr("Stream completed with no data")>>,
          <<"events", JArr(<<>>)>> >>)

\* C20: a stream read to its end returns what the stream cut after its last
\* newline returns: the fragment after the last newline is still in the line
\* buffer, has recorded no event and added no text; a stream without any
\* newline returns the empty-stream result.
UnterminatedLineDropped ==
  \A i \in InvIds :
    StreamReturned(i) =>
      LET body == inv[i].response.body
          cut == Sub(body, 1, LastNewline(body))
      IN /\ inv[i].result = StreamResult(ReadStep(NewStream, cut))
         /\ inv[i].st.buffer = Slice(BodyText(body), Len(BodyText(cut)))
         /\ LastNewline(body) = 0 => inv[i].result = EmptyStreamResult

\* the stream "data: hey", without a newline, was read to its end: the line
\* is in the buffer and the result is the empty one
OnlyLineUnterminated ==
  \E i \in InvIds :
    /\ StreamReturned(i)
    /\ inv[i].response.body = "data: hey"
    /\ inv[i].st.buffer = "data: hey"
    /\ inv[i].result = EmptyStreamResult

=============================================================================
